---- MODULE Spec2Model ----
(***************************************************************************)
(* Two command-line programs of the repository:                            *)
(*                                                                         *)
(*   egs/mucs/ASR/local/compute_fbank_mucs.py   the resumable feature      *)
(*       caching pipeline (compute_fbank_mucs), specification SpecCache;   *)
(*   egs/librispeech/ASR/transducer/pretrained.py   the batched inference  *)
(*       pipeline (read_sound_files, main), specification SpecInfer.       *)
(*                                                                         *)
(* The file system (manifest directory, output directory, sound files) is  *)
(* part of the state.  A caching run is a sequence of steps so that an     *)
(* interruption can fall between any two of them.                          *)
(***************************************************************************)
EXTENDS Integers, Sequences, FiniteSets, TLC

VARIABLES
    \* ---- compute_fbank_mucs.py: the file system
    manifestFiles,  \* <<type, partition>> of the manifest files present in src_dir
    artifact,       \* output_dir / cuts_filename, per partition
    feats,          \* output_dir / <prefix>_feats_<partition>, per partition
    \* ---- compute_fbank_mucs.py: one run (one process)
    run,            \* number of the current run
    prev,           \* how the previous run ended ("none" before the first)
    pc,             \* position of the run in compute_fbank_mucs
    dataset,        \* the --dataset argument
    bpe_model,      \* the --bpe-model argument
    sp,             \* TRUE once the SentencePieceProcessor is loaded
    manifests,      \* the dict returned by read_manifests_if_cached, in key order
    idx,            \* position of the for loop in manifests.items()
    exHeld,         \* the executor context is entered and not yet exited
    exAcquired,     \* number of times this run entered get_executor()
    exReleased,     \* number of times this run exited it
    log,            \* the logging.info lines of the partition loop, this run
    computed,       \* partitions whose compute_and_store_features was called, this run
    written,        \* partitions whose to_file was called, this run
    err,            \* the exception that ended the run ("none" if none)
    startArtifact,  \* artifact as it was when the run started
    startFeats,     \* feats as it was when the run started
    \* ---- pretrained.py: the command line and the sound files
    sound_files,    \* params.sound_files, the positional arguments in order
    method,         \* params.method
    fileRate,       \* native sample rate of each sound file
    fileLen,        \* number of samples (in frame shifts) of each sound file
    \* ---- pretrained.py: one run of main
    ipc,            \* position of the run in main
    ans,            \* the list read_sound_files is building
    waves,          \* line 246
    features,       \* line 252
    feature_lengths,\* lines 253 and 257
    batch,          \* line 255, the padded features
    encoder_out,    \* line 260
    encoder_out_lens,
    i,              \* the loop variable of line 266 (counted from 1)
    hyps,           \* line 265
    logged,         \* the blocks of the message logged at line 285
    searchCalls,    \* the calls of greedy_search and beam_search, in order
    ierr            \* the exception that ended the run ("none" if none)

cacheVars == <<manifestFiles, artifact, feats, run, prev, pc, dataset, bpe_model,
               sp, manifests, idx, exHeld, exAcquired, exReleased, log, computed,
               written, err, startArtifact, startFeats>>

inferVars == <<sound_files, method, fileRate, fileLen, ipc, ans, waves, features,
               feature_lengths, batch, encoder_out, encoder_out_lens, i, hyps,
               logged, searchCalls, ierr>>

vars == <<cacheVars, inferVars>>

----
(***************************************************************************)
(* Bounds                                                                  *)
(***************************************************************************)
MaxRuns == 3      \* runs of the caching script
MaxBatch == 3     \* sound files on one command line
MaxLen == 5       \* frames of one sound file
FeatDim == 2      \* mel bins of one frame (feature_dim, scaled down)

----
(***************************************************************************)
(* compute_fbank_mucs.py                                                   *)
(***************************************************************************)

\* pretrained.py line 113: the expected sample rate
sample_rate == 16000

\* lines 90-94
dataset_parts == <<"train", "test", "dev">>

Parts == {dataset_parts[k] : k \in 1..Len(dataset_parts)}

\* The manifest types read_manifests_if_cached looks for, and the keys
\* lines 124-125 read from each partition's entry.
ManifestTypes == {"recordings", "supervisions"}

\* The values --dataset can take (absent, or naming a partition).
DatasetArgs == {"None"} \cup Parts

\* The values --bpe-model can take (absent, or a path).
BpeArgs == {"None", "bpe.model"}

\* An artifact file that does not exist (lines 118-119 name the file of a
\* partition <prefix>_cuts_<partition>.<suffix>: one file per partition).
Absent == [st |-> "absent", by |-> 0]

\* is_file replaced by a check that the artifact was written to the end
is_file_Finished(a) == a.st = "complete"

\* line 119: (output_dir / cuts_filename).is_file(); a file that was opened
\* for writing and never finished is a file.
is_file(a) == a.st # "absent"

\* lines 98-103: for each part in order, for each type, a file that is not
\* there is passed over; a part appears as a key when at least one of its
\* files was loaded, and its entry holds the types that were.
RECURSIVE read_manifests_if_cached(_, _)
read_manifests_if_cached(parts, files) ==
    IF parts = <<>> THEN <<>>
    ELSE LET part == Head(parts)
             m == {t \in ManifestTypes : <<t, part>> \in files}
             rest == read_manifests_if_cached(Tail(parts), files)
         IN IF m = {} THEN rest
            ELSE <<[partition |-> part, m |-> m]>> \o rest

AllManifestFiles == ManifestTypes \X Parts

InTheLoop == {"for", "from_manifests", "compute", "trim", "write"}
Running == {"start", "with"} \cup InTheLoop
Ended == {"done", "failed", "interrupted"}

partition == manifests[idx].partition

\* State at the entry of compute_fbank_mucs (line 149 calls it with the
\* parsed arguments).
NewRun(ds, bpe) ==
    /\ pc' = "start"
    /\ dataset' = ds
    /\ bpe_model' = bpe
    /\ sp' = FALSE
    /\ manifests' = <<>>
    /\ idx' = 1
    /\ exHeld' = FALSE
    /\ exAcquired' = 0
    /\ exReleased' = 0
    /\ log' = <<>>
    /\ computed' = <<>>
    /\ written' = <<>>
    /\ err' = "none"

InitCache ==
    /\ manifestFiles \in SUBSET AllManifestFiles
    /\ artifact \in [Parts -> {Absent, [st |-> "complete", by |-> 0]}]
    /\ feats = [p \in Parts |-> IF is_file(artifact[p]) THEN "complete" ELSE "absent"]
    /\ run = 1
    /\ prev = "none"
    /\ pc = "start"
    /\ dataset \in DatasetArgs
    /\ bpe_model \in BpeArgs
    /\ sp = FALSE
    /\ manifests = <<>>
    /\ idx = 1
    /\ exHeld = FALSE
    /\ exAcquired = 0
    /\ exReleased = 0
    /\ log = <<>>
    /\ computed = <<>>
    /\ written = <<>>
    /\ err = "none"
    /\ startArtifact = artifact
    /\ startFeats = feats
    \* pretrained.py at rest
    /\ sound_files = <<1>>
    /\ method = "greedy_search"
    /\ fileRate = [k \in 1..1 |-> sample_rate]
    /\ fileLen = [k \in 1..1 |-> 1]
    /\ ipc = "idle"
    /\ ans = <<>>
    /\ waves = <<>>
    /\ features = <<>>
    /\ feature_lengths = <<>>
    /\ batch = <<>>
    /\ encoder_out = <<>>
    /\ encoder_out_lens = <<>>
    /\ i = 1
    /\ hyps = <<>>
    /\ logged = <<>>
    /\ searchCalls = <<>>
    /\ ierr = "none"

\* Raise without the exit of the context manager (an executor that is shut
\* down by a call after the loop, not by a with block)
Raise_NoExit(e) ==
    /\ pc' = "failed"
    /\ err' = e
    /\ UNCHANGED <<exHeld, exReleased>>

\* An exception leaves the function; inside the with block the context
\* manager is exited on the way out (line 115).
Raise(e) ==
    /\ pc' = "failed"
    /\ err' = e
    /\ exHeld' = FALSE
    /\ exReleased' = IF exHeld THEN exReleased + 1 ELSE exReleased

\* lines 80-113: the bpe model is loaded when given, the manifests are read
\* and the two assertions are checked.
ReadManifests ==
    /\ UNCHANGED inferVars
    /\ pc = "start"
    /\ sp' = (bpe_model # "None")
    /\ manifests' = read_manifests_if_cached(dataset_parts, manifestFiles)
    /\ IF Len(manifests') = Len(dataset_parts)
       THEN /\ pc' = "with"
            /\ UNCHANGED <<err, exHeld, exReleased>>
       ELSE Raise("AssertionError")
    /\ UNCHANGED <<manifestFiles, artifact, feats, run, prev, dataset, bpe_model,
                   idx, exAcquired, log, computed, written,
                   startArtifact, startFeats>>

\* line 115: with get_executor() as ex
EnterExecutor ==
    /\ UNCHANGED inferVars
    /\ pc = "with"
    /\ exHeld' = TRUE
    /\ exAcquired' = exAcquired + 1
    /\ pc' = "for"
    /\ UNCHANGED <<manifestFiles, artifact, feats, run, prev, dataset, bpe_model,
                   sp, manifests, idx, exReleased, log, computed, written, err,
                   startArtifact, startFeats>>

\* ExaminePartition without the existence check of line 119
ExaminePartition_NoCheck ==
    /\ UNCHANGED inferVars
    /\ pc = "for"
    /\ idx <= Len(manifests)
    /\ log' = Append(log, <<"Processing", partition>>)
    /\ idx' = idx
    /\ pc' = "from_manifests"
    /\ UNCHANGED <<manifestFiles, artifact, feats, run, prev, dataset, bpe_model,
                   sp, manifests, exHeld, exAcquired, exReleased, computed,
                   written, err, startArtifact, startFeats>>

\* ExaminePartition with break in place of the continue of line 121
ExaminePartition_Break ==
    /\ UNCHANGED inferVars
    /\ pc = "for"
    /\ idx <= Len(manifests)
    /\ IF is_file(artifact[partition])
       THEN /\ log' = Append(log, <<"skipping", partition>>)
            /\ idx' = Len(manifests) + 1
            /\ pc' = "for"
       ELSE /\ log' = Append(log, <<"Processing", partition>>)
            /\ idx' = idx
            /\ pc' = "from_manifests"
    /\ UNCHANGED <<manifestFiles, artifact, feats, run, prev, dataset, bpe_model,
                   sp, manifests, exHeld, exAcquired, exReleased, computed,
                   written, err, startArtifact, startFeats>>

\* ExaminePartition with --dataset applied as a filter: a partition it does
\* not name is passed over
ExaminePartition_Filter ==
    /\ UNCHANGED inferVars
    /\ pc = "for"
    /\ idx <= Len(manifests)
    /\ IF dataset # "None" /\ dataset # partition
       THEN /\ log' = log
            /\ idx' = idx + 1
            /\ pc' = "for"
       ELSE IF is_file(artifact[partition])
       THEN /\ log' = Append(log, <<"skipping", partition>>)
            /\ idx' = idx + 1
            /\ pc' = "for"
       ELSE /\ log' = Append(log, <<"Processing", partition>>)
            /\ idx' = idx
            /\ pc' = "from_manifests"
    /\ UNCHANGED <<manifestFiles, artifact, feats, run, prev, dataset, bpe_model,
                   sp, manifests, exHeld, exAcquired, exReleased, computed,
                   written, err, startArtifact, startFeats>>

\* lines 116-122: the next partition of manifests.items() is examined
ExaminePartition ==
    /\ UNCHANGED inferVars
    /\ pc = "for"
    /\ idx <= Len(manifests)
    /\ IF is_file(artifact[partition])
       THEN /\ log' = Append(log, <<"skipping", partition>>)
            /\ idx' = idx + 1
            /\ pc' = "for"
       ELSE /\ log' = Append(log, <<"Processing", partition>>)
            /\ idx' = idx
            /\ pc' = "from_manifests"
    /\ UNCHANGED <<manifestFiles, artifact, feats, run, prev, dataset, bpe_model,
                   sp, manifests, exHeld, exAcquired, exReleased, computed,
                   written, err, startArtifact, startFeats>>

\* lines 116 and 115: the loop is exhausted and the with block is left
ExitExecutor ==
    /\ UNCHANGED inferVars
    /\ pc = "for"
    /\ idx > Len(manifests)
    /\ exHeld' = FALSE
    /\ exReleased' = exReleased + 1
    /\ pc' = "done"
    /\ UNCHANGED <<manifestFiles, artifact, feats, run, prev, dataset, bpe_model,
                   sp, manifests, idx, exAcquired, log, computed, written, err,
                   startArtifact, startFeats>>

\* lines 123-126: m["recordings"] and m["supervisions"] are read
FromManifests ==
    /\ UNCHANGED inferVars
    /\ pc = "from_manifests"
    /\ IF ManifestTypes \subseteq manifests[idx].m
       THEN /\ pc' = "compute"
            /\ UNCHANGED <<err, exHeld, exReleased>>
       ELSE Raise("KeyError")
    /\ UNCHANGED <<manifestFiles, artifact, feats, run, prev, dataset, bpe_model,
                   sp, manifests, idx, exAcquired, log, computed, written,
                   startArtifact, startFeats>>

\* lines 128-135: the features are computed by the pool and stored under
\* <prefix>_feats_<partition>; a failing job leaves the storage unfinished.
ComputeFeatures ==
    /\ UNCHANGED inferVars
    /\ pc = "compute"
    /\ computed' = Append(computed, partition)
    /\ \E ok \in BOOLEAN :
         IF ok
         THEN /\ feats' = [feats EXCEPT ![partition] = "complete"]
              /\ pc' = "trim"
              /\ UNCHANGED <<err, exHeld, exReleased>>
         ELSE /\ feats' = [feats EXCEPT ![partition] = "partial"]
              /\ Raise("ComputeError")
    /\ UNCHANGED <<manifestFiles, artifact, run, prev, dataset, bpe_model,
                   sp, manifests, idx, exAcquired, log, written,
                   startArtifact, startFeats>>

\* lines 136-139: trim_to_supervisions
TrimToSupervisions ==
    /\ UNCHANGED inferVars
    /\ pc = "trim"
    /\ \E ok \in BOOLEAN :
         IF ok
         THEN /\ pc' = "write"
              /\ UNCHANGED <<err, exHeld, exReleased>>
         ELSE Raise("TrimError")
    /\ UNCHANGED <<manifestFiles, artifact, feats, run, prev, dataset, bpe_model,
                   sp, manifests, idx, exAcquired, log, computed, written,
                   startArtifact, startFeats>>

\* line 140: cut_set.to_file(output_dir / cuts_filename); a write that fails
\* fails before the file is created or leaves it unfinished.
WriteCuts ==
    /\ UNCHANGED inferVars
    /\ pc = "write"
    /\ written' = Append(written, partition)
    /\ \E outcome \in {"ok", "not created", "unfinished"} :
         CASE outcome = "ok" ->
                /\ artifact' = [artifact EXCEPT ![partition] =
                                   [st |-> "complete", by |-> run]]
                /\ idx' = idx + 1
                /\ pc' = "for"
                /\ UNCHANGED <<err, exHeld, exReleased>>
           [] outcome = "not created" ->
                /\ UNCHANGED <<artifact, idx>>
                /\ Raise("WriteError")
           [] outcome = "unfinished" ->
                /\ artifact' = [artifact EXCEPT ![partition] =
                                   [st |-> "partial", by |-> run]]
                /\ UNCHANGED idx
                /\ Raise("WriteError")
    /\ UNCHANGED <<manifestFiles, feats, run, prev, dataset, bpe_model,
                   sp, manifests, exAcquired, log, computed,
                   startArtifact, startFeats>>

\* The process is killed between two steps, or inside the step it is at:
\* inside the feature computation the storage is left unfinished, inside the
\* write the artifact is not yet created or is left unfinished.
Interrupt ==
    /\ UNCHANGED inferVars
    /\ pc \in Running
    /\ pc' = "interrupted"
    /\ IF pc = "compute"
       THEN /\ \E started \in BOOLEAN :
                 feats' = IF started THEN [feats EXCEPT ![partition] = "partial"]
                          ELSE feats
            /\ UNCHANGED artifact
       ELSE IF pc = "write"
       THEN /\ \E created \in BOOLEAN :
                 artifact' = IF created
                             THEN [artifact EXCEPT ![partition] =
                                      [st |-> "partial", by |-> run]]
                             ELSE artifact
            /\ UNCHANGED feats
       ELSE UNCHANGED <<artifact, feats>>
    /\ UNCHANGED <<manifestFiles, run, prev, dataset, bpe_model, sp, manifests,
                   idx, exHeld, exAcquired, exReleased, log, computed, written,
                   err, startArtifact, startFeats>>

\* lines 143-149: the script is invoked again, over the same manifests and
\* the output directory as the previous runs left it.
Restart ==
    /\ UNCHANGED inferVars
    /\ pc \in Ended
    /\ run < MaxRuns
    /\ run' = run + 1
    /\ prev' = pc
    /\ \E ds \in DatasetArgs, bpe \in BpeArgs : NewRun(ds, bpe)
    /\ startArtifact' = artifact
    /\ startFeats' = feats
    /\ UNCHANGED <<manifestFiles, artifact, feats>>

NextCache ==
    \/ ReadManifests
    \/ EnterExecutor
    \/ ExaminePartition
    \/ ExitExecutor
    \/ FromManifests
    \/ ComputeFeatures
    \/ TrimToSupervisions
    \/ WriteCuts
    \/ Interrupt
    \/ Restart

----
(***************************************************************************)
(* pretrained.py                                                           *)
(***************************************************************************)

\* line 117
subsampling_factor == 4

\* line 103
beam_size == 5

\* line 255: padding_value=math.log(1e-10) = -23.0259, in units of 1e-4
padding_value == -230259

\* The sample rates a sound file can have: the expected one and another.
Rates == {sample_rate, 8000}

\* lines 79-86: the two supported values of --method, and one that is not
Methods == {"greedy_search", "beam_search", "unsupported_method"}

Max(S) == CHOOSE x \in S : \A y \in S : y <= x

\* line 194: torchaudio.load(f) gives the samples of every channel of the
\* file and its native rate; the files here have two channels.
Sample(f, c, k) == (f * 10 + k) * 10 + c

load(f) == <<[c \in 1..2 |-> [k \in 1..fileLen[f] |-> Sample(f, c, k)]], fileRate[f]>>

\* line 243/252: kaldifeat.Fbank maps each waveform to its matrix of frames,
\* one list entry per waveform, in the order given.
FbankOne(w) == [t \in 1..Len(w) |-> [d \in 1..FeatDim |-> w[t] * 10 + d]]

fbank(ws) == [n \in 1..Len(ws) |-> FbankOne(ws[n])]

\* pad_sequence called without padding_value: the padding frames are zeros
pad_sequence_Zero(seqs, value) ==
    LET T == Max({Len(seqs[n]) : n \in 1..Len(seqs)})
    IN [n \in 1..Len(seqs) |->
          [t \in 1..T |-> IF t <= Len(seqs[n]) THEN seqs[n][t]
                          ELSE [d \in 1..FeatDim |-> 0]]]

\* line 255: torch.nn.utils.rnn.pad_sequence(features, batch_first=True,
\* padding_value=...): row n holds sequence n followed by padding frames up
\* to the longest sequence.
pad_sequence(seqs, value) ==
    LET T == Max({Len(seqs[n]) : n \in 1..Len(seqs)})
    IN [n \in 1..Len(seqs) |->
          [t \in 1..T |-> IF t <= Len(seqs[n]) THEN seqs[n][t]
                          ELSE [d \in 1..FeatDim |-> value]]]

\* lines 260-262: model.encoder(x, x_lens).  Row n of the output is computed
\* from row n of the input; the time axis is reduced by the subsampling
\* factor, and so is each valid length.
EncoderFrame(row, t) ==
    row[subsampling_factor * (t - 1) + 1][1] + row[subsampling_factor * t][FeatDim]

encoder(x, x_lens) ==
    LET T == Len(x[1]) \div subsampling_factor
    IN <<[n \in 1..Len(x) |-> [t \in 1..T |-> EncoderFrame(x[n], t)]],
         [n \in 1..Len(x) |-> x_lens[n] \div subsampling_factor]>>

\* lines 271 and 273: the two decoding strategies give the token ids of one
\* utterance from its encoder output.
greedy_search(e) == [t \in 1..Len(e) |-> 2 * e[t]]

beam_search(e, beam) == [t \in 1..Len(e) |-> 2 * e[t] + 1]

\* line 279: sp.decode(hyp).split()
decode_split(hyp) == [t \in 1..Len(hyp) |-> <<"word", hyp[t]>>]

N == Len(sound_files)

InitInfer ==
    \* the k-th positional argument names sound file k
    /\ \E n \in 1..MaxBatch : sound_files = [k \in 1..n |-> k]
    /\ method \in Methods
    /\ fileRate \in [1..Len(sound_files) -> Rates]
    /\ fileLen \in [1..Len(sound_files) -> 1..MaxLen]
    /\ ipc = "read"
    /\ ans = <<>>
    /\ waves = <<>>
    /\ features = <<>>
    /\ feature_lengths = <<>>
    /\ batch = <<>>
    /\ encoder_out = <<>>
    /\ encoder_out_lens = <<>>
    /\ i = 1
    /\ hyps = <<>>
    /\ logged = <<>>
    /\ searchCalls = <<>>
    /\ ierr = "none"
    \* compute_fbank_mucs.py at rest
    /\ manifestFiles = {}
    /\ artifact = [p \in Parts |-> Absent]
    /\ feats = [p \in Parts |-> "absent"]
    /\ run = 1
    /\ prev = "none"
    /\ pc = "idle"
    /\ dataset = "None"
    /\ bpe_model = "None"
    /\ sp = FALSE
    /\ manifests = <<>>
    /\ idx = 1
    /\ exHeld = FALSE
    /\ exAcquired = 0
    /\ exReleased = 0
    /\ log = <<>>
    /\ computed = <<>>
    /\ written = <<>>
    /\ err = "none"
    /\ startArtifact = artifact
    /\ startFeats = feats

\* ReadSoundFile without the assertion of lines 195-197: the first channel
\* is appended whatever the rate of the file
ReadSoundFile_NoCheck ==
    /\ UNCHANGED cacheVars
    /\ ipc = "read"
    /\ LET f == sound_files[Len(ans) + 1]
           wave == load(f)[1]
       IN /\ ans' = Append(ans, wave[1])
          /\ IF Len(ans') = N
             THEN /\ waves' = ans'
                  /\ ipc' = "fbank"
             ELSE /\ UNCHANGED waves
                  /\ ipc' = "read"
          /\ UNCHANGED ierr
    /\ UNCHANGED <<sound_files, method, fileRate, fileLen, features,
                   feature_lengths, batch, encoder_out, encoder_out_lens, i,
                   hyps, logged, searchCalls>>

\* lines 193-200 and 246-249: one turn of the loop of read_sound_files; the
\* list is returned to main after the last file.
ReadSoundFile ==
    /\ UNCHANGED cacheVars
    /\ ipc = "read"
    /\ LET f == sound_files[Len(ans) + 1]
           wave == load(f)[1]
           rate == load(f)[2]
       IN IF rate # sample_rate
          THEN /\ ipc' = "failed"
               /\ ierr' = "AssertionError"
               /\ UNCHANGED <<ans, waves>>
          ELSE /\ ans' = Append(ans, wave[1])
               /\ IF Len(ans') = N
                  THEN /\ waves' = ans'
                       /\ ipc' = "fbank"
                  ELSE /\ UNCHANGED waves
                       /\ ipc' = "read"
               /\ UNCHANGED ierr
    /\ UNCHANGED <<sound_files, method, fileRate, fileLen, features,
                   feature_lengths, batch, encoder_out, encoder_out_lens, i,
                   hyps, logged, searchCalls>>

\* lines 251-253
ComputeFbank ==
    /\ UNCHANGED cacheVars
    /\ ipc = "fbank"
    /\ features' = fbank(waves)
    /\ feature_lengths' = [n \in 1..Len(features') |-> Len(features'[n])]
    /\ ipc' = "pad"
    /\ UNCHANGED <<sound_files, method, fileRate, fileLen, ans, waves, batch,
                   encoder_out, encoder_out_lens, i, hyps, logged, searchCalls,
                   ierr>>

\* lines 255-257
PadFeatures ==
    /\ UNCHANGED cacheVars
    /\ ipc = "pad"
    /\ batch' = pad_sequence(features, padding_value)
    /\ ipc' = "encode"
    /\ UNCHANGED <<sound_files, method, fileRate, fileLen, ans, waves, features,
                   feature_lengths, encoder_out, encoder_out_lens, i, hyps,
                   logged, searchCalls, ierr>>

\* lines 259-265
Encode ==
    /\ UNCHANGED cacheVars
    /\ ipc = "encode"
    /\ encoder_out' = encoder(batch, feature_lengths)[1]
    /\ encoder_out_lens' = encoder(batch, feature_lengths)[2]
    /\ hyps' = <<>>
    /\ i' = 1
    /\ ipc' = "decode"
    /\ UNCHANGED <<sound_files, method, fileRate, fileLen, ans, waves, features,
                   feature_lengths, batch, logged, searchCalls, ierr>>

\* DecodeUtterance with greedy_search as the default of the dispatch: the
\* else branch of line 276 decodes instead of raising
DecodeUtterance_Fallback ==
    /\ UNCHANGED cacheVars
    /\ ipc = "decode"
    /\ i <= Len(encoder_out)
    /\ LET encoder_out_i == SubSeq(encoder_out[i], 1, encoder_out_lens[i])
       IN IF method = "beam_search"
          THEN /\ hyps' = Append(hyps,
                                 decode_split(beam_search(encoder_out_i, beam_size)))
               /\ searchCalls' = Append(searchCalls, <<"beam_search", i>>)
          ELSE /\ hyps' = Append(hyps, decode_split(greedy_search(encoder_out_i)))
               /\ searchCalls' = Append(searchCalls, <<"greedy_search", i>>)
    /\ i' = i + 1
    /\ UNCHANGED <<ipc, ierr>>
    /\ UNCHANGED <<sound_files, method, fileRate, fileLen, ans, waves, features,
                   feature_lengths, batch, encoder_out, encoder_out_lens, logged>>

\* DecodeUtterance with hyps.insert(0, ...) in place of the append of line 279
DecodeUtterance_Prepend ==
    /\ UNCHANGED cacheVars
    /\ ipc = "decode"
    /\ i <= Len(encoder_out)
    /\ LET encoder_out_i == SubSeq(encoder_out[i], 1, encoder_out_lens[i])
       IN IF method = "greedy_search"
          THEN /\ hyps' = <<decode_split(greedy_search(encoder_out_i))>> \o hyps
               /\ searchCalls' = Append(searchCalls, <<"greedy_search", i>>)
               /\ i' = i + 1
               /\ UNCHANGED <<ipc, ierr>>
          ELSE IF method = "beam_search"
          THEN /\ hyps' = <<decode_split(beam_search(encoder_out_i, beam_size))>>
                             \o hyps
               /\ searchCalls' = Append(searchCalls, <<"beam_search", i>>)
               /\ i' = i + 1
               /\ UNCHANGED <<ipc, ierr>>
          ELSE /\ ipc' = "failed"
               /\ ierr' = "ValueError"
               /\ UNCHANGED <<hyps, searchCalls, i>>
    /\ UNCHANGED <<sound_files, method, fileRate, fileLen, ans, waves, features,
                   feature_lengths, batch, encoder_out, encoder_out_lens, logged>>

\* lines 266-279: one turn of the decoding loop
DecodeUtterance ==
    /\ UNCHANGED cacheVars
    /\ ipc = "decode"
    /\ i <= Len(encoder_out)
    /\ LET encoder_out_i == SubSeq(encoder_out[i], 1, encoder_out_lens[i])
       IN IF method = "greedy_search"
          THEN /\ hyps' = Append(hyps, decode_split(greedy_search(encoder_out_i)))
               /\ searchCalls' = Append(searchCalls, <<"greedy_search", i>>)
               /\ i' = i + 1
               /\ UNCHANGED <<ipc, ierr>>
          ELSE IF method = "beam_search"
          THEN /\ hyps' = Append(hyps,
                                 decode_split(beam_search(encoder_out_i, beam_size)))
               /\ searchCalls' = Append(searchCalls, <<"beam_search", i>>)
               /\ i' = i + 1
               /\ UNCHANGED <<ipc, ierr>>
          ELSE /\ ipc' = "failed"
               /\ ierr' = "ValueError"
               /\ UNCHANGED <<hyps, searchCalls, i>>
    /\ UNCHANGED <<sound_files, method, fileRate, fileLen, ans, waves, features,
                   feature_lengths, batch, encoder_out, encoder_out_lens, logged>>

\* zip(a, b): the pairs up to the shorter of the two
zip(a, b) ==
    LET n == IF Len(a) <= Len(b) THEN Len(a) ELSE Len(b)
    IN [k \in 1..n |-> <<a[k], b[k]>>]

\* lines 281-287: the blocks are built in the order of zip(sound_files, hyps)
\* and logged in one message
LogResults ==
    /\ UNCHANGED cacheVars
    /\ ipc = "decode"
    /\ i > Len(encoder_out)
    /\ logged' = zip(sound_files, hyps)
    /\ ipc' = "done"
    /\ UNCHANGED <<sound_files, method, fileRate, fileLen, ans, waves, features,
                   feature_lengths, batch, encoder_out, encoder_out_lens, i,
                   hyps, searchCalls, ierr>>

NextInfer ==
    \/ ReadSoundFile
    \/ ComputeFbank
    \/ PadFeatures
    \/ Encode
    \/ DecodeUtterance
    \/ LogResults

----
(***************************************************************************)
(* Claims about compute_fbank_mucs.py, checked under SpecCache             *)
(***************************************************************************)

AllSkipped == [k \in 1..Len(dataset_parts) |-> <<"skipping", dataset_parts[k]>>]

\* What line 119 decides for partition p from the output directory as it
\* was when the run started.
Decision(p) == IF startArtifact[p].st # "absent" THEN "skipping" ELSE "Processing"

ExistedAtStart == {p \in Parts : startArtifact[p].st # "absent"}

NotAtStart(p) == p \notin ExistedAtStart

\* C1: cache idempotence.  In a run that follows a run that ran to
\* completion (same manifests, nothing deleted), no features are computed,
\* nothing is written, every examined partition is skipped, the run cannot
\* fail, the artifacts and the feature storage stay as the first run left
\* them, and when it completes all of train, test, dev were skipped.
C1_CacheIdempotence ==
    (run >= 2 /\ prev = "done") =>
        /\ computed = <<>>
        /\ written = <<>>
        /\ artifact = startArtifact
        /\ feats = startFeats
        /\ \A k \in 1..Len(log) : log[k][1] = "skipping"
        /\ pc # "failed"
        /\ pc = "done" => log = AllSkipped

\* a second run has completed after a first run that computed all three
C1_Witness ==
    /\ run = 2
    /\ prev = "done"
    /\ pc = "done"
    /\ \A p \in Parts : artifact[p] = [st |-> "complete", by |-> 1]

\* C2: per-partition skip.  With all manifests present, a run that
\* completes has computed, trimmed and written exactly the partitions whose
\* artifact did not exist at its start, in the order train, test, dev; the
\* partitions whose artifact existed were skipped and their artifact and
\* feature storage are unchanged; every partition has an artifact.  At no
\* point of the run was a partition with an existing artifact computed or
\* written.
C2_PerPartitionSkip ==
    manifestFiles = AllManifestFiles =>
        /\ \A k \in 1..Len(computed) : NotAtStart(computed[k])
        /\ \A k \in 1..Len(written) : NotAtStart(written[k])
        /\ \A p \in ExistedAtStart :
              artifact[p] = startArtifact[p] /\ feats[p] = startFeats[p]
        /\ pc = "done" =>
              /\ computed = SelectSeq(dataset_parts, NotAtStart)
              /\ written = computed
              /\ log = [k \in 1..Len(dataset_parts) |->
                          <<Decision(dataset_parts[k]), dataset_parts[k]>>]
              /\ \A p \in Parts : artifact[p].st # "absent"
              /\ \A p \in Parts \ ExistedAtStart :
                    artifact[p] = [st |-> "complete", by |-> run]

\* only train existed at the start; the run skipped it and processed test
\* and dev
C2_Witness ==
    /\ manifestFiles = AllManifestFiles
    /\ ExistedAtStart = {"train"}
    /\ pc = "done"
    /\ log = <<<<"skipping", "train">>, <<"Processing", "test">>,
               <<"Processing", "dev">>>>
    /\ artifact["test"] = [st |-> "complete", by |-> run]
    /\ artifact["dev"] = [st |-> "complete", by |-> run]
    /\ artifact["train"] = startArtifact["train"]

\* C7: a missing manifest is a fatal input error.  Whenever a manifest file
\* of a declared partition is missing, the run computes no features, writes
\* no artifact, leaves the output directory as it found it, and does not
\* complete.
C7_MissingManifestNoOutput ==
    manifestFiles # AllManifestFiles =>
        /\ computed = <<>>
        /\ written = <<>>
        /\ artifact = startArtifact
        /\ feats = startFeats
        /\ pc # "done"

\* The part of C7 the code does guarantee: when a declared partition has no
\* manifest file at all, the assertion of line 106 ends the run before the
\* executor is entered and before any partition is examined.
C7_NoManifestAtAll ==
    (\E p \in Parts : \A ty \in ManifestTypes : <<ty, p>> \notin manifestFiles) =>
        /\ pc \in {"start", "failed", "interrupted"}
        /\ computed = <<>>
        /\ written = <<>>
        /\ log = <<>>
        /\ exAcquired = 0
        /\ artifact = startArtifact
        /\ feats = startFeats
        /\ pc = "failed" => err = "AssertionError"

\* C8: restart after interruption.  (a) Every examination of a partition
\* skips it if and only if its artifact file exists at that moment.  (b) An
\* artifact left unfinished by an interrupted or failed write is never
\* changed again, and its partition is never computed or written again.
\* (c) A run that completes leaves every partition whose artifact did not
\* exist at its start (interrupted before the write created it) computed in
\* this run, with an artifact written in full by this run.
LastOf(s) == s[Len(s)]

C8_Examine ==
    (pc = "for" /\ Len(log') = Len(log) + 1) =>
        /\ LastOf(log')[2] = partition
        /\ (LastOf(log')[1] = "skipping") <=> (artifact[partition].st # "absent")
        /\ (LastOf(log')[1] = "Processing") <=> (artifact[partition].st = "absent")

C8_Unfinished ==
    \A p \in Parts :
        artifact[p].st = "partial" =>
            /\ artifact'[p] = artifact[p]
            /\ Len(computed') > Len(computed) => LastOf(computed') # p
            /\ Len(written') > Len(written) => LastOf(written') # p

C8_Completed ==
    pc' = "done" =>
        \A p \in Parts :
            IF startArtifact'[p].st = "absent"
            THEN /\ \E k \in 1..Len(computed') : computed'[k] = p
                 /\ artifact'[p] = [st |-> "complete", by |-> run']
            ELSE artifact'[p] = startArtifact'[p]

\* C8: every step of every run, interrupted or not, satisfies (a), (b), (c):
\* the restart behaviour is determined by the existence of the artifact file.
C8_RestartByExistence == [][C8_Examine /\ C8_Unfinished /\ C8_Completed]_vars

\* the third run completes after two interrupted runs: the artifact of train
\* was left unfinished by the first and is kept, the feature storage of test
\* was left unfinished by the second and test is computed and written
C8_Witness ==
    /\ run = 3
    /\ prev = "interrupted"
    /\ pc = "done"
    /\ startArtifact["train"] = [st |-> "partial", by |-> 1]
    /\ artifact["train"] = startArtifact["train"]
    /\ startFeats["test"] = "partial"
    /\ startArtifact["test"].st = "absent"
    /\ artifact["test"] = [st |-> "complete", by |-> 3]
    /\ log[1] = <<"skipping", "train">>
    /\ log[2] = <<"Processing", "test">>

\* C9: worker-pool lifetime.  A run enters the executor at most once; it has
\* not entered it before the manifests are loaded and checked; from the
\* first examination of a partition to the end of the loop it holds the one
\* executor it entered; a run that has examined, computed or written
\* anything entered it exactly once; and when the run ends, normally or by
\* an exception of the manifest access, the feature computation, the
\* trimming or the write, the executor is released, once.
C9_ExecutorLifetime ==
    /\ exAcquired <= 1
    /\ exReleased <= exAcquired
    /\ exHeld <=> (exAcquired = 1 /\ exReleased = 0)
    /\ pc \in {"start", "with"} =>
          exAcquired = 0 /\ log = <<>> /\ computed = <<>> /\ written = <<>>
    /\ pc = "with" => Len(manifests) = Len(dataset_parts)
    /\ pc \in InTheLoop => exHeld
    /\ (log # <<>> \/ computed # <<>> \/ written # <<>>) => exAcquired = 1
    /\ pc = "done" => exAcquired = 1 /\ exReleased = 1 /\ ~exHeld
    /\ pc = "failed" =>
          /\ ~exHeld
          /\ exReleased = exAcquired
          /\ err \in {"KeyError", "ComputeError", "TrimError", "WriteError"}
                => exAcquired = 1

\* the write of the third processed partition failed: the one executor
\* served three partitions and is released
C9_Witness ==
    /\ pc = "failed"
    /\ err = "WriteError"
    /\ Len(computed) = 3
    /\ exAcquired = 1
    /\ exReleased = 1
    /\ ~exHeld

----
(***************************************************************************)
(* Claims about pretrained.py, checked under SpecInfer                     *)
(***************************************************************************)

\* The first channel of the k-th sound file, and its feature matrix, written
\* from the file alone.
FileWave(k) == [t \in 1..fileLen[sound_files[k]] |-> Sample(sound_files[k], 1, t)]

FileFeatures(k) == [t \in 1..Len(FileWave(k)) |->
                       [d \in 1..FeatDim |-> FileWave(k)[t] * 10 + d]]

\* The hypothesis the selected strategy gives for row k of the encoder
\* output, truncated to its valid length.
RowHypothesis(k) ==
    LET e == SubSeq(encoder_out[k], 1, encoder_out_lens[k])
    IN IF method = "greedy_search"
       THEN [t \in 1..Len(e) |-> <<"word", 2 * e[t]>>]
       ELSE [t \in 1..Len(e) |-> <<"word", 2 * e[t] + 1>>]

\* Row k of the encoder output as the encoder computes it for utterance k
\* alone, from the features of the k-th file.
FileEncoding(k) ==
    [t \in 1..(Len(FileFeatures(k)) \div subsampling_factor) |->
        FileFeatures(k)[subsampling_factor * (t - 1) + 1][1]
        + FileFeatures(k)[subsampling_factor * t][FeatDim]]

SomeRateMismatch == \E k \in 1..N : fileRate[sound_files[k]] # sample_rate

\* C3: order preservation.  At every stage the k-th entry belongs to the
\* k-th file of the command line: waveform, feature matrix, length, padded
\* row, encoder row; the k-th hypothesis is the one decoded from the k-th
\* encoder row truncated to encoder_out_lens[k], by the k-th call of the
\* strategy; a run that completes has called the strategy exactly once per
\* utterance and logs exactly N blocks, the k-th pairing the k-th filename
\* with the k-th hypothesis.
C3_OrderPreserved ==
    /\ \A k \in 1..Len(ans) : ans[k] = FileWave(k)
    /\ waves # <<>> => waves = [k \in 1..N |-> FileWave(k)]
    /\ features # <<>> =>
          /\ features = [k \in 1..N |-> FileFeatures(k)]
          /\ feature_lengths = [k \in 1..N |-> fileLen[sound_files[k]]]
    /\ batch # <<>> =>
          /\ Len(batch) = N
          /\ \A k \in 1..N :
                SubSeq(batch[k], 1, feature_lengths[k]) = FileFeatures(k)
    /\ encoder_out # <<>> =>
          /\ Len(encoder_out) = N
          /\ Len(encoder_out_lens) = N
          /\ \A k \in 1..N :
                /\ encoder_out_lens[k] = fileLen[sound_files[k]] \div subsampling_factor
                /\ SubSeq(encoder_out[k], 1, encoder_out_lens[k]) = FileEncoding(k)
    /\ \A k \in 1..Len(hyps) : hyps[k] = RowHypothesis(k)
    /\ \A k \in 1..Len(searchCalls) : searchCalls[k] = <<method, k>>
    /\ Len(searchCalls) = Len(hyps)
    /\ ipc = "done" =>
          /\ Len(searchCalls) = N
          /\ Len(logged) = N
          /\ \A k \in 1..N : logged[k] = <<sound_files[k], RowHypothesis(k)>>

\* three files, the shortest first and the longest in the middle, were
\* decoded by beam search and logged; the first hypothesis is empty (its
\* valid length is 0) and the other two are not, and differ
C3_Witness ==
    /\ ipc = "done"
    /\ N = 3
    /\ method = "beam_search"
    /\ feature_lengths = <<1, MaxLen, subsampling_factor>>
    /\ Len(logged) = 3
    /\ logged[1][2] = <<>>
    /\ logged[2][2] # <<>>
    /\ logged[3][2] # <<>>
    /\ logged[2][2] # logged[3][2]

\* C4: unsupported method.  With a method other than greedy_search and
\* beam_search, no strategy is ever called, no hypothesis is kept, nothing
\* is logged and the run never completes; a run that reaches the dispatch
\* (every file was read) fails there with the unsupported-method error, on
\* the first utterance.
C4_UnsupportedMethod ==
    method \notin {"greedy_search", "beam_search"} =>
        /\ searchCalls = <<>>
        /\ hyps = <<>>
        /\ logged = <<>>
        /\ ipc # "done"
        /\ i = 1
        /\ (ipc = "failed" /\ waves # <<>>) => ierr = "ValueError"
        /\ ierr = "ValueError" => (ipc = "failed" /\ encoder_out # <<>> /\ i = 1)
        /\ (ipc = "failed" /\ ~SomeRateMismatch) => ierr = "ValueError"

\* three files of the expected rate and an unsupported method: the run has
\* failed at the first utterance
C4_Witness ==
    /\ method = "unsupported_method"
    /\ N = 3
    /\ ipc = "failed"
    /\ ierr = "ValueError"
    /\ Len(encoder_out) = 3
    /\ i = 1
    /\ logged = <<>>

\* C5: a sample-rate mismatch is fatal for the whole batch.  When any file
\* of the list has another rate than the expected one, read_sound_files
\* never returns a list: no features are extracted, the encoder is not
\* called, nothing is decoded or logged, and the run ends with the
\* assertion error.  In every run, feature extraction begins only after all
\* N files were loaded and checked.
C5_RateMismatchFatal ==
    /\ SomeRateMismatch =>
          /\ waves = <<>>
          /\ features = <<>>
          /\ feature_lengths = <<>>
          /\ batch = <<>>
          /\ encoder_out = <<>>
          /\ hyps = <<>>
          /\ searchCalls = <<>>
          /\ logged = <<>>
          /\ ipc \in {"read", "failed"}
          /\ Len(ans) < N
          /\ ipc = "failed" =>
                /\ ierr = "AssertionError"
                /\ fileRate[sound_files[Len(ans) + 1]] # sample_rate
    /\ ipc \notin {"read", "failed"} => (Len(ans) = N /\ waves = ans)
    /\ features # <<>> => (Len(ans) = N /\ waves = ans)
    /\ ipc = "read" => (waves = <<>> /\ features = <<>>)

\* three files, only the last of another rate: the first two were loaded
\* and the run has failed
C5_Witness ==
    /\ N = 3
    /\ fileRate[sound_files[1]] = sample_rate
    /\ fileRate[sound_files[2]] = sample_rate
    /\ fileRate[sound_files[3]] # sample_rate
    /\ ipc = "failed"
    /\ Len(ans) = 2
    /\ waves = <<>>

\* C6: padding invariant.  Once the batch is assembled it has N rows, each
\* of max length frames of the feature dimension; rows [0:length_k] of
\* utterance k are its feature matrix, every entry of the rows from
\* length_k on is the sentinel log(1e-10), and the length vector holds the
\* lengths in input order.
C6_PaddingInvariant ==
    batch # <<>> =>
        /\ Len(batch) = N
        /\ feature_lengths = [k \in 1..N |-> Len(FileFeatures(k))]
        /\ \A k \in 1..N :
              /\ Len(batch[k]) = Max({Len(FileFeatures(n)) : n \in 1..N})
              /\ \A t \in 1..Len(batch[k]) :
                    /\ Len(batch[k][t]) = FeatDim
                    /\ t <= feature_lengths[k] =>
                          /\ batch[k][t] = features[k][t]
                          /\ batch[k][t] = FileFeatures(k)[t]
                    /\ t > feature_lengths[k] =>
                          \A d \in 1..FeatDim : batch[k][t][d] = padding_value

\* three utterances of lengths 2, MaxLen, 1 were padded to MaxLen
C6_Witness ==
    /\ ipc = "encode"
    /\ N = 3
    /\ feature_lengths = <<2, MaxLen, 1>>
    /\ Len(batch[1]) = MaxLen
    /\ batch[3][MaxLen][FeatDim] = padding_value
    /\ batch[1][2] = features[1][2]

----
(***************************************************************************)
(* Specifications.  Each program is checked with the other one at rest.    *)
(***************************************************************************)

SpecCache == InitCache /\ [][NextCache]_vars

SpecInfer == InitInfer /\ [][NextInfer]_vars

====
